---------------------------- MODULE Spec2Model ----------------------------
(***************************************************************************)
(* A model of src/portfolio_analytics.py: the transaction loader and its   *)
(* locale normalisation, the holdings aggregation, the return / drawdown   *)
(* calculation and the sequencing of main().                               *)
(*                                                                         *)
(* float64 values are modelled as extended rationals <<n, d>> in lowest    *)
(* terms with d >= 0: d > 0 is the finite number n/d, <<1,0>> is +inf,     *)
(* <<-1,0>> is -inf and <<0,0>> is NaN.  Rounding is not modelled, and a   *)
(* zero carries no sign (with integer prices the sign of a zero never      *)
(* decides a result of calculate_metrics: a zero divisor there is either   *)
(* a price or a running peak whose dividend is zero too).                  *)
(***************************************************************************)
EXTENDS Integers, Sequences, FiniteSets, TLC

VARIABLES
    pc,                  \* position of the run
    file,                \* the input file on disk (never written)
    df,                  \* the table load_and_clean_data returned, or None
    exc,                 \* the exception that ended the run, or "none"
    out,                 \* the lines printed so far
    holdings,            \* the result of get_portfolio_snapshot
    market_data,         \* the price series handed to calculate_metrics
    cumulative_returns,  \* first result of calculate_metrics
    drawdown,            \* the drawdown series inside calculate_metrics
    max_drawdown,        \* second result of calculate_metrics
    ran                  \* the stages of main that have executed

vars == <<pc, file, df, exc, out, holdings, market_data,
          cumulative_returns, drawdown, max_drawdown, ran>>

(***************************************************************************)
(* Bounds of the model.                                                    *)
(***************************************************************************)
MaxLen   == 4    \* longest price series handed to calculate_metrics
MaxPrice == 3    \* prices range over -MaxPrice .. MaxPrice
MaxStr   == 3    \* longest free text of a numeric cell of the input file
MaxRows  == 3    \* most rows of a canonical transaction table
MaxFetch == 2    \* longest price series the market-data fetch returns in main

(***************************************************************************)
(* float64 arithmetic (IEEE 754 special values, exact finite arithmetic).  *)
(***************************************************************************)
Abs(x) == IF x < 0 THEN -x ELSE x

RECURSIVE Gcd(_, _)
Gcd(a, b) == IF b = 0 THEN a ELSE Gcd(b, a % b)

Norm(n, d) ==
    LET g == Gcd(Abs(n), Abs(d))
        s == IF d < 0 THEN -1 ELSE 1
    IN  <<(s * n) \div g, (s * d) \div g>>

NaN  == <<0, 0>>
PInf == <<1, 0>>
NInf == <<-1, 0>>
Num(k) == <<k, 1>>

IsNaN(a)    == a = NaN
IsInf(a)    == a[2] = 0 /\ a[1] # 0
IsFinite(a) == a[2] > 0
Sgn(a)      == IF a[1] > 0 THEN 1 ELSE IF a[1] < 0 THEN -1 ELSE 0
SgnZ(a)     == IF a[1] < 0 THEN -1 ELSE 1     \* a zero counts as +0.0

FNeg(a) == <<-a[1], a[2]>>

FAdd(a, b) ==
    IF IsNaN(a) \/ IsNaN(b) THEN NaN
    ELSE IF IsInf(a) /\ IsInf(b) THEN (IF a = b THEN a ELSE NaN)
    ELSE IF IsInf(a) THEN a
    ELSE IF IsInf(b) THEN b
    ELSE Norm(a[1] * b[2] + b[1] * a[2], a[2] * b[2])

FSub(a, b) == FAdd(a, FNeg(b))

FMul(a, b) ==
    IF IsNaN(a) \/ IsNaN(b) THEN NaN
    ELSE IF IsInf(a) \/ IsInf(b)
         THEN (IF Sgn(a) = 0 \/ Sgn(b) = 0 THEN NaN ELSE <<Sgn(a) * Sgn(b), 0>>)
    ELSE Norm(a[1] * b[1], a[2] * b[2])

FDiv(a, b) ==
    IF IsNaN(a) \/ IsNaN(b) THEN NaN
    ELSE IF IsInf(a) THEN (IF IsInf(b) THEN NaN ELSE <<Sgn(a) * SgnZ(b), 0>>)
    ELSE IF IsInf(b) THEN Num(0)
    ELSE IF b[1] = 0 THEN (IF a[1] = 0 THEN NaN ELSE <<Sgn(a), 0>>)
    ELSE Norm(a[1] * b[2], a[2] * b[1])

FLt(a, b) ==
    /\ ~IsNaN(a)
    /\ ~IsNaN(b)
    /\ \/ IsFinite(a) /\ IsFinite(b) /\ a[1] * b[2] < b[1] * a[2]
       \/ a = NInf /\ b # NInf
       \/ b = PInf /\ a # PInf

FLe(a, b) == ~IsNaN(a) /\ ~IsNaN(b) /\ (a = b \/ FLt(a, b))
FGt(a, b) == FLt(b, a)

FMax(a, b) == IF FLt(a, b) THEN b ELSE a
FMin(a, b) == IF FLt(b, a) THEN b ELSE a

(***************************************************************************)
(* pandas Series operations used by calculate_metrics.  A Series is a      *)
(* sequence of float64 values in index order.                              *)
(***************************************************************************)
\* The ratio the wrong way round.
PctChangeInverted(s) ==
    [i \in 1..Len(s) |-> IF i = 1 THEN NaN
                         ELSE FSub(FDiv(s[i - 1], s[i]), Num(1))]

\* Series.pct_change(): data / data.shift(1) - 1; the first position is NaN.
PctChange(s) ==
    [i \in 1..Len(s) |-> IF i = 1 THEN NaN
                         ELSE FSub(FDiv(s[i], s[i - 1]), Num(1))]

\* Series.dropna(): the non-NaN values, order kept.
DropNa(s) == SelectSeq(s, LAMBDA x : ~IsNaN(x))

\* 1 + returns
OnePlus(s) == [i \in 1..Len(s) |-> FAdd(Num(1), s[i])]

\* Series.cumprod(): NaN inputs are skipped (they count as 1 and give NaN at
\* their own position); a NaN that the product itself produces propagates.
RECURSIVE ProdAcc(_, _, _)
ProdAcc(s, i, acc) ==
    IF i > Len(s) THEN <<>>
    ELSE LET nxt == FMul(acc, s[i]) IN <<nxt>> \o ProdAcc(s, i + 1, nxt)

CumProd(s) ==
    LET vals == [i \in 1..Len(s) |-> IF IsNaN(s[i]) THEN Num(1) ELSE s[i]]
        acc  == ProdAcc(vals, 1, Num(1))
    IN  [i \in 1..Len(s) |-> IF IsNaN(s[i]) THEN NaN ELSE acc[i]]

\* Series.cummax(): NaN inputs are skipped (they count as -inf and give NaN at
\* their own position).
RECURSIVE MaxAcc(_, _, _)
MaxAcc(s, i, acc) ==
    IF i > Len(s) THEN <<>>
    ELSE LET nxt == FMax(acc, s[i]) IN <<nxt>> \o MaxAcc(s, i + 1, nxt)

\* The running minimum instead of the running maximum.
CumMin(s) ==
    LET vals == [i \in 1..Len(s) |-> IF IsNaN(s[i]) THEN PInf ELSE s[i]]
        step[i \in 1..Len(s)] ==
            IF i = 1 THEN vals[1] ELSE FMin(step[i - 1], vals[i])
    IN  [i \in 1..Len(s) |-> IF IsNaN(s[i]) THEN NaN ELSE step[i]]

\* The running maximum started at the anchor's growth factor 1.0.
CumMaxFromOne(s) ==
    LET vals == [i \in 1..Len(s) |-> IF IsNaN(s[i]) THEN NInf ELSE s[i]]
        acc  == MaxAcc(vals, 1, Num(1))
    IN  [i \in 1..Len(s) |-> IF IsNaN(s[i]) THEN NaN ELSE acc[i]]

CumMax(s) ==
    LET vals == [i \in 1..Len(s) |-> IF IsNaN(s[i]) THEN NInf ELSE s[i]]
        acc  == MaxAcc(vals, 1, NInf)
    IN  [i \in 1..Len(s) |-> IF IsNaN(s[i]) THEN NaN ELSE acc[i]]

\* cumulative_returns / rolling_max - 1, position by position
DrawdownOf(cum, peak) ==
    [i \in 1..Len(cum) |-> FSub(FDiv(cum[i], peak[i]), Num(1))]

\* Series.min(): the least non-NaN value; NaN when there is none.
RECURSIVE MinAcc(_, _, _)
MinAcc(s, i, acc) ==
    IF i > Len(s) THEN acc
    ELSE MinAcc(s, i + 1, IF IsNaN(acc) THEN s[i] ELSE FMin(acc, s[i]))

SeriesMin(s) == MinAcc(DropNa(s), 1, NaN)

(***************************************************************************)
(* calculate_metrics                                                       *)
(***************************************************************************)
Returns(md) == DropNa(PctChange(md))

CumulativeReturns(md) == CumProd(OnePlus(Returns(md)))

RollingMax(md) == CumMax(CumulativeReturns(md))

Drawdown(md) == DrawdownOf(CumulativeReturns(md), RollingMax(md))

MaxDrawdown(md) == SeriesMin(Drawdown(md))

(***************************************************************************)
(* Text.  A str is a sequence of one-character strings.                    *)
(***************************************************************************)
Digits == <<"0", "1", "2", "3", "4", "5", "6", "7", "8", "9">>

IsDigit(c) == \E i \in 1..Len(Digits) : Digits[i] = c

DigitVal(c) == (CHOOSE i \in 1..Len(Digits) : Digits[i] = c) - 1

AllDigits(t) == \A i \in 1..Len(t) : IsDigit(t[i])

RECURSIVE IntVal(_)
IntVal(t) ==
    IF t = <<>> THEN 0
    ELSE 10 * IntVal(SubSeq(t, 1, Len(t) - 1)) + DigitVal(t[Len(t)])

RECURSIVE Pow10(_)
Pow10(k) == IF k = 0 THEN 1 ELSE 10 * Pow10(k - 1)

\* str.replace(old, new, regex=False) for a one-character old; new is a str
RECURSIVE StrReplace(_, _, _)
StrReplace(t, old, new) ==
    IF t = <<>> THEN <<>>
    ELSE (IF Head(t) = old THEN new ELSE <<Head(t)>>)
             \o StrReplace(Tail(t), old, new)

\* The position of the first c in t, or 0.
IndexOf(t, c) ==
    IF \E i \in 1..Len(t) : t[i] = c
    THEN CHOOSE i \in 1..Len(t) : t[i] = c /\ \A j \in 1..(i - 1) : t[j] # c
    ELSE 0

\* The C-locale number parser behind read_csv and to_numeric: an optional
\* sign, digits with at most one '.', at least one digit, nothing else.
\* NaN stands for "does not parse".
ParseFloat(t) ==
    LET signed == t # <<>> /\ Head(t) \in {"-", "+"}
        body   == IF signed THEN Tail(t) ELSE t
        dot    == IndexOf(body, ".")
        ip     == IF dot = 0 THEN body ELSE SubSeq(body, 1, dot - 1)
        fp     == IF dot = 0 THEN <<>> ELSE SubSeq(body, dot + 1, Len(body))
        mag    == IntVal(ip) * Pow10(Len(fp)) + IntVal(fp)
    IN  IF AllDigits(ip) /\ AllDigits(fp) /\ Len(ip) + Len(fp) >= 1
        THEN Norm(IF signed /\ Head(t) = "-" THEN -mag ELSE mag, Pow10(Len(fp)))
        ELSE NaN

\* Calendar dates are <<year, month, day>>; NaT is the missing date.
NaTv == <<0, 0, 0>>

DaysIn(m, y) ==
    IF m \in {4, 6, 9, 11} THEN 30
    ELSE IF m # 2 THEN 31
    ELSE IF y % 4 = 0 /\ (y % 100 # 0 \/ y % 400 = 0) THEN 29 ELSE 28

\* A DD-MM-YYYY text read day-first; NaTv stands for "does not parse".
ParseDayFirst(t) ==
    IF /\ Len(t) = 10
       /\ t[3] = "-"
       /\ t[6] = "-"
       /\ AllDigits(SubSeq(t, 1, 2) \o SubSeq(t, 4, 5) \o SubSeq(t, 7, 10))
    THEN LET d == IntVal(SubSeq(t, 1, 2))
             m == IntVal(SubSeq(t, 4, 5))
             y == IntVal(SubSeq(t, 7, 10))
         IN  IF m \in 1..12 /\ d >= 1 /\ d <= DaysIn(m, y) /\ y >= 1
             THEN <<y, m, d>> ELSE NaTv
    ELSE NaTv

(***************************************************************************)
(* Tables.  A cell is a str, a float64 (NaN is the missing value) or a     *)
(* date (NaT missing).  A DataFrame keeps its columns in order: their      *)
(* names, their dtypes and their cells, row by row.                        *)
(***************************************************************************)
Str(t)  == [k |-> "str",   s |-> t,    v |-> NaN]
Flt(x)  == [k |-> "float", s |-> <<>>, v |-> x]
Dat(x)  == [k |-> "date",  s |-> <<>>, v |-> x]

NA  == Flt(NaN)
NaT == Dat(NaTv)

IsNA(c) == c = NA \/ c = NaT

NoTable == [none |-> TRUE, columns |-> <<>>, dtypes |-> <<>>, data |-> <<>>]

Table(cols, dts, dat) ==
    [none |-> FALSE, columns |-> cols, dtypes |-> dts, data |-> dat]

HasCol(d, name) == \E j \in 1..Len(d.columns) : d.columns[j] = name

ColIndex(d, name) == CHOOSE j \in 1..Len(d.columns) : d.columns[j] = name

Column(d, name) == d.data[ColIndex(d, name)]

NRows(d) == IF d.columns = <<>> THEN 0 ELSE Len(d.data[1])

(***************************************************************************)
(* load_and_clean_data                                                     *)
(***************************************************************************)
NoFile == [exists |-> FALSE, header |-> <<>>, rows |-> <<>>]

\* pd.read_csv: a column whose non-empty cells all parse as numbers is numeric
\* (an empty cell is NaN), any other column is object and keeps its texts (an
\* empty cell is NaN there too; pandas before 3.0, where text columns have
\* dtype object).  int64 and float64 are not told apart.
ReadCsv(f) ==
    LET n == Len(f.rows)
        txt(j) == [i \in 1..n |-> f.rows[i][j]]
        numeric(j) ==
            \A i \in 1..n : txt(j)[i] = <<>> \/ ~IsNaN(ParseFloat(txt(j)[i]))
    IN  Table(f.header,
              [j \in 1..Len(f.header) |->
                  IF numeric(j) THEN "float64" ELSE "object"],
              [j \in 1..Len(f.header) |->
                  [i \in 1..n |->
                      IF txt(j)[i] = <<>> THEN NA
                      ELSE IF numeric(j) THEN Flt(ParseFloat(txt(j)[i]))
                      ELSE Str(txt(j)[i])]])

\* column_map: Dutch and English export headers to the canonical names
ColumnMap(name) ==
    CASE name = "Datum"         -> "Date"
      [] name = "Tijd"          -> "Time"
      [] name = "Aantal"        -> "Quantity"
      [] name = "Koers"         -> "Price"
      [] name = "Lokale waarde" -> "Local Value"
      [] name = "Local value"   -> "Local Value"
      [] name = "Waarde"        -> "Value"
      [] name = "Totaal"        -> "Total"
      [] OTHER                  -> name

\* df.rename(columns=column_map)
Rename(d) ==
    [d EXCEPT !.columns = [j \in 1..Len(d.columns) |-> ColumnMap(d.columns[j])]]

cols_to_fix == {"Quantity", "Price", "Local Value", "Value", "Total"}

\* str(float): "nan", or the sign, the integer digits, "." and the fraction
\* digits ("0" when there are none).  Only finite decimals occur.
RECURSIVE DigitsOf(_)
DigitsOf(n) ==
    IF n < 10 THEN <<Digits[n + 1]>>
    ELSE DigitsOf(n \div 10) \o <<Digits[(n % 10) + 1]>>

RECURSIVE FracDigits(_, _)
FracDigits(r, d) ==
    IF r = 0 THEN <<>>
    ELSE <<Digits[((10 * r) \div d) + 1]>> \o FracDigits((10 * r) % d, d)

FloatRepr(x) ==
    IF ~IsFinite(x) THEN <<"n", "a", "n">>
    ELSE LET m == Abs(x[1])
             f == FracDigits(m % x[2], x[2])
         IN  (IF x[1] < 0 THEN <<"-">> ELSE <<>>)
                 \o DigitsOf(m \div x[2]) \o <<".">>
                 \o (IF f = <<>> THEN <<"0">> ELSE f)

\* Series.astype(str): a str is itself, a float is its repr (the missing value
\* is the text "nan").
AsTypeStr(c) == IF c.k = "str" THEN c.s ELSE FloatRepr(c.v)

\* The two replacements in the other order.
EuropeanToCSwapped(t) == StrReplace(StrReplace(t, ",", <<".">>), ".", <<>>)

\* .str.replace('.', '').str.replace(',', '.')
EuropeanToC(t) == StrReplace(StrReplace(t, ".", <<>>), ",", <<".">>)

\* pd.to_numeric(..., errors='coerce') of one cell
ToNumeric(t) == Flt(ParseFloat(t))

\* The loop body without its dtype test.
FixColumnAnyDtype(d, j) ==
    IF d.columns[j] \in cols_to_fix
    THEN [dtype |-> "float64",
          cells |-> [i \in 1..Len(d.data[j]) |->
                        ToNumeric(EuropeanToC(AsTypeStr(d.data[j][i])))]]
    ELSE [dtype |-> d.dtypes[j], cells |-> d.data[j]]

\* the body of the loop over cols_to_fix, for column j of d
FixColumn(d, j) ==
    IF d.columns[j] \in cols_to_fix /\ d.dtypes[j] = "object"
    THEN [dtype |-> "float64",
          cells |-> [i \in 1..Len(d.data[j]) |->
                        ToNumeric(EuropeanToC(AsTypeStr(d.data[j][i])))]]
    ELSE [dtype |-> d.dtypes[j], cells |-> d.data[j]]

FixNumerics(d) ==
    [d EXCEPT !.dtypes = [j \in 1..Len(d.columns) |-> FixColumn(d, j).dtype],
              !.data   = [j \in 1..Len(d.columns) |-> FixColumn(d, j).cells]]

\* pd.to_datetime(..., dayfirst=True) of one cell; errors='raise' is the
\* default, so a text that is no date raises ValueError.
DateRaises(c) == c.k = "str" /\ ParseDayFirst(c.s) = NaTv

ToDatetime(c) ==
    IF c.k = "str" THEN Dat(ParseDayFirst(c.s))
    ELSE IF c.k = "float" /\ ~IsNaN(c.v) THEN Dat(<<1970, 1, 1>>)
    ELSE NaT

ParseDatesRaises(d) ==
    /\ HasCol(d, "Date")
    /\ \E i \in 1..NRows(d) : DateRaises(Column(d, "Date")[i])

ParseDates(d) ==
    IF HasCol(d, "Date")
    THEN LET j == ColIndex(d, "Date")
         IN  [d EXCEPT !.dtypes[j] = "datetime64",
                       !.data[j] = [i \in 1..NRows(d) |-> ToDatetime(d.data[j][i])]]
    ELSE d

\* What a call returns: the exception it raised ("none" when it returned),
\* the lines it printed and the value it returned.
LoadAndCleanData(f) ==
    IF ~f.exists
    THEN [raised |-> "none", printed |-> <<"Error: File not found">>,
          value |-> NoTable]
    ELSE LET d == FixNumerics(Rename(ReadCsv(f)))
         IN  IF ParseDatesRaises(d)
             THEN [raised |-> "ValueError", printed |-> <<>>, value |-> NoTable]
             ELSE [raised |-> "none", printed |-> <<>>, value |-> ParseDates(d)]

(***************************************************************************)
(* get_portfolio_snapshot                                                  *)
(***************************************************************************)
\* df.dropna(subset=['ISIN', 'Quantity']): the row numbers that stay
TradeRows(d) ==
    {i \in 1..NRows(d) :
        ~IsNA(Column(d, "ISIN")[i]) /\ ~IsNA(Column(d, "Quantity")[i])}

\* groupby(['Product', 'ISIN']) leaves out the rows whose key has a missing
\* part (dropna=True); ISIN is present in every trade row already.
GroupKeys(d) ==
    {<<Column(d, "Product")[i], Column(d, "ISIN")[i]>> :
        i \in {r \in TradeRows(d) : ~IsNA(Column(d, "Product")[r])}}

\* ['Quantity'].sum() of one group: its rows are added in table order
RECURSIVE GroupSumFrom(_, _, _, _)
GroupSumFrom(d, key, i, acc) ==
    IF i > NRows(d) THEN acc
    ELSE GroupSumFrom(d, key, i + 1,
            IF /\ i \in TradeRows(d)
               /\ <<Column(d, "Product")[i], Column(d, "ISIN")[i]>> = key
            THEN FAdd(acc, Column(d, "Quantity")[i].v)
            ELSE acc)

\* The quantity of the group's last row instead of the group's sum.
GroupLast(d, key) ==
    LET rows == {i \in TradeRows(d) :
                    <<Column(d, "Product")[i], Column(d, "ISIN")[i]>> = key}
    IN  IF rows = {} THEN Num(0)
        ELSE Column(d, "Quantity")[CHOOSE i \in rows : \A r \in rows : r <= i].v

GroupSum(d, key) == GroupSumFrom(d, key, 1, Num(0))

\* Closed positions kept: >= instead of >.
RetainedOrClosed(q) == FLe(Num(0), q)

\* holdings[holdings['Quantity'] > 0]
Retained(q) == FGt(q, Num(0))

\* The rows of the returned frame, as a set: the frame lists them in key order.
GetPortfolioSnapshot(d) ==
    {[Product |-> key[1], ISIN |-> key[2], Quantity |-> GroupSum(d, key)] :
        key \in {k \in GroupKeys(d) : Retained(GroupSum(d, k))}}

SnapshotRaises(d) ==
    ~(HasCol(d, "ISIN") /\ HasCol(d, "Quantity") /\ HasCol(d, "Product"))

(***************************************************************************)
(* Inputs of the calculator: price series of 1..MaxLen integer prices,     *)
(* zero and negative prices included (the code guards neither).            *)
(***************************************************************************)
Prices == {Num(k) : k \in (-MaxPrice)..MaxPrice}

PriceSeries == UNION {[1..n -> Prices] : n \in 1..MaxLen}

NoSeries == <<>>

(***************************************************************************)
(* Inputs of the loader: export files in the Dutch layout, the English     *)
(* layout and a layout with neither a Date nor an ISIN column (its first   *)
(* and third columns pass through).  A file has one or two rows.           *)
(* The first row holds any text of up to MaxStr characters (or one of the  *)
(* spec's examples) in its Quantity cell and a well-formed, an empty or a  *)
(* malformed date; the second row, when there is one, is one of PlainRows. *)
(***************************************************************************)
Chars == {"1", "5", ".", ",", "-", "x"}

Texts == UNION {[1..n -> Chars] : n \in 0..MaxStr}

ExampleTexts == {<<"1", ".", "2", "3", "4", ",", "5", "6">>,
                 <<"1", "0", "0", "0">>,
                 <<"-", "2", ",", "5">>}

GoodDate  == <<"0", "5", "-", "0", "2", "-", "2", "0", "2", "3">>
GoodDate2 == <<"3", "1", "-", "0", "1", "-", "2", "0", "2", "3">>
BadDate   == <<"b", "a", "d">>

DateTexts == {GoodDate, <<>>, BadDate}

Layouts == {<<"Datum", "Product", "ISIN", "Aantal", "Koers">>,
            <<"Date", "Product", "ISIN", "Quantity", "Price">>,
            <<"Order ID", "Product", "Ticker", "Quantity", "Total">>}

PlainRows ==
    {<<GoodDate2, <<"A">>, <<"X">>, <<"1", ".", "2", "3", "4", ",", "5", "6">>,
       <<"1", "0", ",", "5">>>>,
     <<<<>>, <<"B">>, <<>>, <<>>, <<>>>>,
     <<BadDate, <<"B">>, <<"X">>, <<"-", "2", ",", "5">>, <<"2">>>>,
     <<GoodDate2, <<"A">>, <<"Y">>, <<"7">>, <<"x">>>>}

FirstRows(texts) ==
    {<<d, <<"A">>, <<"X">>, t, <<"3">>>> : d \in DateTexts, t \in texts}

FilesWith(texts) ==
    {[exists |-> TRUE, header |-> h, rows |-> r] :
        h \in Layouts,
        r \in {<<r1>> : r1 \in FirstRows(texts)}
              \cup {<<r1, r2>> : r1 \in FirstRows(texts), r2 \in PlainRows}}

Files == {NoFile} \cup FilesWith(Texts \cup ExampleTexts)

MainFiles == {NoFile} \cup FilesWith(ExampleTexts)

FetchedSeries == {s \in PriceSeries : Len(s) <= MaxFetch}

(***************************************************************************)
(* Inputs of the aggregator: canonical tables of up to MaxRows rows over   *)
(* two products and two ISINs, either of which may be missing.             *)
(***************************************************************************)
ProdA == Str(<<"A">>)
ProdB == Str(<<"B">>)
IsinX == Str(<<"X">>)
IsinY == Str(<<"Y">>)

Instruments == {<<ProdA, IsinX>>, <<ProdB, IsinX>>, <<ProdA, IsinY>>,
                <<NA, IsinX>>, <<ProdA, NA>>}

Quantities == {Flt(Num(-1)), Flt(Num(2)), NA}

CanonicalRows == {<<k[1], k[2], q>> : k \in Instruments, q \in Quantities}

TableOfRows(rows) ==
    Table(<<"Product", "ISIN", "Quantity">>,
          <<"object", "object", "float64">>,
          [j \in 1..3 |-> [i \in 1..Len(rows) |-> rows[i][j]]])

CanonicalTables ==
    {TableOfRows(rows) : rows \in UNION {[1..n -> CanonicalRows] : n \in 0..MaxRows}}

(***************************************************************************)
(* main                                                                    *)
(***************************************************************************)
\* main without its "if df is None: return".
AfterLoadUnchecked(d) == "loaded"

\* what main does with the value load_and_clean_data returned
AfterLoad(d) == IF d.none THEN "returned" ELSE "loaded"

\* df = load_and_clean_data(INPUT_FILE); if df is None: return
Load ==
    /\ pc = "start"
    /\ LET r == LoadAndCleanData(file)
       IN  /\ out' = out \o <<"Starting Portfolio Analytics">> \o r.printed
           /\ exc' = r.raised
           /\ df' = r.value
           /\ pc' = IF r.raised # "none" THEN "crashed" ELSE AfterLoad(r.value)
    /\ ran' = ran \cup {"load"}
    /\ UNCHANGED <<file, holdings, market_data, cumulative_returns, drawdown,
                   max_drawdown>>

\* holdings = get_portfolio_snapshot(df), and the two prints after it
Holdings ==
    /\ pc = "loaded"
    /\ ran' = ran \cup {"holdings"}
    /\ IF SnapshotRaises(df)
       THEN /\ exc' = "KeyError"
            /\ pc' = "crashed"
            /\ UNCHANGED <<holdings, out>>
       ELSE /\ holdings' = GetPortfolioSnapshot(df)
            /\ out' = out \o <<"Loaded transactions. Current positions", "holdings">>
            /\ pc' = "holdings"
            /\ exc' = exc
    /\ UNCHANGED <<file, df, market_data, cumulative_returns, drawdown,
                   max_drawdown>>

\* benchmark_data = fetch_market_data(holdings, BENCHMARK_TICKER)
FetchMarketData ==
    /\ pc = "holdings"
    /\ ran' = ran \cup {"fetch"}
    /\ out' = out \o <<"Downloading market data">>
    /\ market_data' \in FetchedSeries
    /\ pc' = "fetched"
    /\ UNCHANGED <<file, df, exc, holdings, cumulative_returns, drawdown,
                   max_drawdown>>

\* an error of the market-data service propagates out of main
FetchFails ==
    /\ pc = "holdings"
    /\ ran' = ran \cup {"fetch"}
    /\ out' = out \o <<"Downloading market data">>
    /\ exc' = "DownloadError"
    /\ pc' = "crashed"
    /\ UNCHANGED <<file, df, holdings, market_data, cumulative_returns,
                   drawdown, max_drawdown>>

\* cum_returns, max_dd = calculate_metrics(benchmark_data)
CalculateMetrics ==
    /\ pc = "fetched"
    /\ cumulative_returns' = CumulativeReturns(market_data)
    /\ drawdown' = Drawdown(market_data)
    /\ max_drawdown' = MaxDrawdown(market_data)
    /\ ran' = ran \cup {"metrics"}
    /\ pc' = "metrics"
    /\ UNCHANGED <<file, df, exc, out, holdings, market_data>>

\* the chart and the closing print
Visualize ==
    /\ pc = "metrics"
    /\ ran' = ran \cup {"chart"}
    /\ out' = out \o <<"Analysis Complete. Max Drawdown">>
    /\ pc' = "done"
    /\ UNCHANGED <<file, df, exc, holdings, market_data, cumulative_returns,
                   drawdown, max_drawdown>>

Fresh ==
    /\ df = NoTable
    /\ exc = "none"
    /\ out = <<>>
    /\ holdings = {}
    /\ market_data = NoSeries
    /\ cumulative_returns = NoSeries
    /\ drawdown = NoSeries
    /\ max_drawdown = NaN
    /\ ran = {}

Init ==
    /\ pc = "start"
    /\ file \in MainFiles
    /\ Fresh

Next ==
    \/ Load
    \/ Holdings
    \/ FetchMarketData
    \/ FetchFails
    \/ CalculateMetrics
    \/ Visualize

Spec == Init /\ [][Next]_vars

(***************************************************************************)
(* load_and_clean_data over every file of Files.                           *)
(***************************************************************************)
InitLoad ==
    /\ pc = "start"
    /\ file \in Files
    /\ Fresh

NextLoad == Load

SpecLoad == InitLoad /\ [][NextLoad]_vars

(***************************************************************************)
(* get_portfolio_snapshot as a pure function of its argument.              *)
(***************************************************************************)
InitSnapshot ==
    /\ pc = "loaded"
    /\ file = NoFile
    /\ out = <<>>
    /\ exc = "none"
    /\ holdings = {}
    /\ market_data = NoSeries
    /\ cumulative_returns = NoSeries
    /\ drawdown = NoSeries
    /\ max_drawdown = NaN
    /\ ran = {}
    /\ df \in CanonicalTables

NextSnapshot == Holdings

SpecSnapshot == InitSnapshot /\ [][NextSnapshot]_vars

(***************************************************************************)
(* calculate_metrics as a pure function of its argument.                   *)
(***************************************************************************)
InitMetrics ==
    /\ pc = "fetched"
    /\ file = NoFile
    /\ df = NoTable
    /\ exc = "none"
    /\ out = <<>>
    /\ holdings = {}
    /\ market_data \in PriceSeries
    /\ cumulative_returns = NoSeries
    /\ drawdown = NoSeries
    /\ max_drawdown = NaN
    /\ ran = {}

NextMetrics == CalculateMetrics

SpecMetrics == InitMetrics /\ [][NextMetrics]_vars

(***************************************************************************)
(* Claims about calculate_metrics.                                         *)
(***************************************************************************)
AllPositive(md) == \A i \in 1..Len(md) : md[i][1] > 0

StrictlyIncreasing(md) == \A i \in 1..(Len(md) - 1) : FLt(md[i], md[i + 1])

NonPositive(s) == \A i \in 1..Len(s) : FLe(s[i], Num(0))

\* C4 as stated: for every price series with at least two points every
\* drawdown position is <= 0 and the max drawdown is a number <= 0.
C4_AsStated ==
    (pc = "metrics" /\ Len(market_data) >= 2)
        => NonPositive(drawdown) /\ FLe(max_drawdown, Num(0))

\* C4 amended: for every series of at least two strictly positive prices
\* every drawdown position is <= 0 and the max drawdown is a number <= 0.
C4_DrawdownNonPositive ==
    (pc = "metrics" /\ Len(market_data) >= 2 /\ AllPositive(market_data))
        => NonPositive(drawdown) /\ FLe(max_drawdown, Num(0))

C4_Witness ==
    /\ pc = "metrics"
    /\ Len(market_data) >= 3
    /\ AllPositive(market_data)
    /\ FLt(max_drawdown, Num(0))

\* C5 as stated: every strictly increasing price series with at least two
\* points has max drawdown exactly 0, every drawdown position being 0.
C5_AsStated ==
    (pc = "metrics" /\ Len(market_data) >= 2 /\ StrictlyIncreasing(market_data))
        => /\ max_drawdown = Num(0)
           /\ \A i \in 1..Len(drawdown) : drawdown[i] = Num(0)

\* C5 amended: every strictly increasing series of at least two strictly
\* positive prices has max drawdown exactly 0, every drawdown position being 0
\* and every cumulative return being its own running peak.
C5_IncreasingZeroDrawdown ==
    (/\ pc = "metrics"
     /\ Len(market_data) >= 2
     /\ AllPositive(market_data)
     /\ StrictlyIncreasing(market_data))
        => /\ max_drawdown = Num(0)
           /\ Len(drawdown) = Len(market_data) - 1
           /\ \A i \in 1..Len(drawdown) : drawdown[i] = Num(0)
           /\ RollingMax(market_data) = cumulative_returns

C5_Witness ==
    /\ pc = "metrics"
    /\ Len(market_data) >= 3
    /\ AllPositive(market_data)
    /\ StrictlyIncreasing(market_data)
    /\ max_drawdown = Num(0)

\* The largest of the prices p[2..i] (the anchoring price p[1] left out).
PeakPrice(p, i) ==
    CHOOSE m \in {p[j][1] : j \in 2..i} : \A j \in 2..i : p[j][1] <= m

\* p[i] / max(p[2..i]) - 1 as a number in lowest terms
PriceDrawdown(p, i) == Norm(p[i][1] - PeakPrice(p, i), PeakPrice(p, i))

\* C10: for positive prices p[0..n], n >= 1, the cumulative return at position
\* i >= 1 is p[i]/p[0] and the max drawdown is the least p[i]/max(p[1..i]) - 1
\* over i >= 1: the anchoring price p[0] is never a running peak.
C10_AnchorNotPeak ==
    (pc = "metrics" /\ Len(market_data) >= 2 /\ AllPositive(market_data))
        => LET p == market_data
               n == Len(p)
           IN  /\ Len(cumulative_returns) = n - 1
               /\ \A i \in 2..n :
                      cumulative_returns[i - 1] = Norm(p[i][1], p[1][1])
               /\ \E i \in 2..n : max_drawdown = PriceDrawdown(p, i)
               /\ \A i \in 2..n : FLe(max_drawdown, PriceDrawdown(p, i))

\* a fall from p[0] to p[1] followed by a partial recovery: max drawdown 0
C10_Witness ==
    /\ pc = "metrics"
    /\ Len(market_data) = 3
    /\ AllPositive(market_data)
    /\ FLt(market_data[2], market_data[3])
    /\ FLt(market_data[3], market_data[1])
    /\ max_drawdown = Num(0)


(***************************************************************************)
(* Claims about get_portfolio_snapshot.                                    *)
(***************************************************************************)
RECURSIVE SumOver(_, _)
SumOver(q, rows) ==
    IF rows = {} THEN 0
    ELSE LET i == CHOOSE r \in rows : TRUE
         IN  q[i].v[1] + SumOver(q, rows \ {i})

\* The rows with ISIN and Quantity present that carry product P and ISIN I.
RowsOf(d, P, I) ==
    {i \in 1..NRows(d) :
        /\ Column(d, "ISIN")[i] # NA
        /\ Column(d, "Quantity")[i] # NA
        /\ Column(d, "Product")[i] = P
        /\ Column(d, "ISIN")[i] = I}

\* The rows with Product, ISIN and Quantity present that carry ISIN I.
RowsOfIsin(d, I) ==
    {i \in 1..NRows(d) :
        /\ Column(d, "Product")[i] # NA
        /\ Column(d, "ISIN")[i] # NA
        /\ Column(d, "Quantity")[i] # NA
        /\ Column(d, "ISIN")[i] = I}

Entry(P, I, q) == [Product |-> P, ISIN |-> I, Quantity |-> Num(q)]

C2_OnePositionPerIsin ==
    pc = "holdings" =>
        \A e \in holdings :
            e.Quantity = Num(SumOver(Column(df, "Quantity"), RowsOfIsin(df, e.ISIN)))

RowOrders(n) == {f \in [1..n -> 1..n] : \A i, j \in 1..n : f[i] = f[j] => i = j}

Permuted(d, f) ==
    [d EXCEPT !.data = [j \in 1..Len(d.columns) |->
                           [i \in 1..NRows(d) |-> d.data[j][f[i]]]]]

Count(t, c) == Cardinality({i \in 1..Len(t) : t[i] = c})

\* The number a European-format text denotes: its '.' are thousands marks and
\* count for nothing, its one ',' is the decimal mark; NaN when it denotes none.
EuropeanValue(t) ==
    LET kept   == SelectSeq(t, LAMBDA c : c # ".")
        signed == kept # <<>> /\ kept[1] \in {"-", "+"}
        body   == IF signed THEN Tail(kept) ELSE kept
        digs   == SelectSeq(body, IsDigit)
        comma  == CHOOSE i \in 1..(Len(body) + 1) :
                      i = Len(body) + 1 \/ body[i] = ","
        scale  == IF comma > Len(body) THEN 0 ELSE Len(body) - comma
    IN  IF /\ digs # <<>>
           /\ Count(body, ",") <= 1
           /\ Len(digs) + Count(body, ",") = Len(body)
        THEN Norm((IF signed /\ kept[1] = "-" THEN -1 ELSE 1) * IntVal(digs),
                  Pow10(scale))
        ELSE NaN

DateColumn(f) == {j \in 1..Len(f.header) : ColumnMap(f.header[j]) = "Date"}

MalformedDate(t) == t # <<>> /\ ParseDayFirst(t) = NaTv

HasMalformedDate(f) ==
    \E j \in DateColumn(f), i \in 1..Len(f.rows) : MalformedDate(f.rows[i][j])

\* C6: a malformed date cell does not abort the load: nothing is raised, the
\* table is returned, that row's Date is missing and the other rows' dates
\* are parsed day-first.
C6_MalformedDateTolerated ==
    (pc # "start" /\ file.exists /\ HasMalformedDate(file)) =>
        /\ exc = "none"
        /\ ~df.none
        /\ \A i \in 1..Len(file.rows) :
              LET t == file.rows[i][CHOOSE j \in DateColumn(file) : TRUE]
              IN  Column(df, "Date")[i] =
                      IF t = <<>> \/ MalformedDate(t) THEN NaT
                      ELSE Dat(<<IntVal(SubSeq(t, 7, 10)), IntVal(SubSeq(t, 4, 5)),
                                 IntVal(SubSeq(t, 1, 2))>>)

\* C7: every cell of a textual column among Quantity, Price, Local Value,
\* Value, Total becomes the number its text denotes in European format, or a
\* missing value when it denotes none; no cell of a numeric column makes the
\* load raise, and the rows, the column names and all other cells are kept.
C7_EuropeanNumbersParsed ==
    /\ (pc # "start" /\ file.exists /\ ~HasMalformedDate(file)) => pc = "loaded"
    /\ pc = "crashed" => exc = "ValueError"
    /\ pc = "loaded" =>
          LET raw == ReadCsv(file)
          IN  /\ NRows(df) = Len(file.rows)
              /\ \A j \in 1..Len(file.header) :
                    /\ df.columns[j] = ColumnMap(file.header[j])
                    /\ (df.columns[j] \in cols_to_fix /\ raw.dtypes[j] = "object")
                          => /\ df.dtypes[j] = "float64"
                             /\ \A i \in 1..NRows(df) :
                                   df.data[j][i] = Flt(EuropeanValue(file.rows[i][j]))
                    /\ df.columns[j] \notin (cols_to_fix \cup {"Date"})
                          => df.data[j] = raw.data[j]

\* "1.234,56" became 1234.56 in a column where another text became missing
C7_Witness ==
    /\ pc = "loaded"
    /\ Len(file.rows) = 2
    /\ file.rows[2][4] = <<"1", ".", "2", "3", "4", ",", "5", "6">>
    /\ Column(df, "Quantity")[2] = Flt(<<30864, 25>>)
    /\ file.rows[1][4] = <<"1", ",", ",">>
    /\ Column(df, "Quantity")[1] = NA
    /\ Column(df, "Product")[1] = ProdA

\* C8: a column among cols_to_fix that read_csv already found numeric keeps
\* every value, and the normalisation applied to an already-normalised table
\* gives the same table.
C8_NormalisationIdempotent ==
    /\ (pc # "start" /\ file.exists) =>
          LET once == FixNumerics(Rename(ReadCsv(file)))
          IN  FixNumerics(once) = once
    /\ pc = "loaded" =>
          /\ FixNumerics(df) = df
          /\ \A j \in 1..Len(df.columns) :
                (df.columns[j] \in cols_to_fix /\ ReadCsv(file).dtypes[j] = "float64")
                    => /\ df.data[j] = ReadCsv(file).data[j]
                       /\ df.dtypes[j] = "float64"

\* a Quantity column read as numbers (1.5 and 7) beside a textual Total
C8_Witness ==
    /\ pc = "loaded"
    /\ Len(file.rows) = 2
    /\ ReadCsv(file).dtypes[4] = "float64"
    /\ ReadCsv(file).dtypes[5] = "object"
    /\ Column(df, "Quantity") = <<Flt(<<3, 2>>), Flt(Num(7))>>

(***************************************************************************)
(* Claims about main.                                                      *)
(***************************************************************************)
LaterStages == {"holdings", "fetch", "metrics", "chart"}

\* C9: when the input path resolves to no file, the load raises nothing,
\* prints a diagnostic and returns None, and main returns: no later stage
\* (holdings, fetch, metrics, chart) ever executes.
C9_FileNotFoundHalts ==
    (~file.exists /\ pc # "start") =>
        /\ pc = "returned"
        /\ exc = "none"
        /\ df.none
        /\ \E i \in 1..Len(out) : out[i] = "Error: File not found"
        /\ ran \cap LaterStages = {}
        /\ holdings = {}
        /\ market_data = NoSeries

C9_Witness == ~file.exists /\ pc = "returned" /\ ran = {"load"}

=============================================================================
